---- MODULE Spec2Model ----
(***************************************************************************)
(* A model of mypypackage.plot.plot_pairs (src/src/mypypackage/plot.py).   *)
(* The caller's table is the persistent state; one call of plot_pairs is   *)
(* unfolded into the steps of its body: column selection, grouping-mode    *)
(* resolution and code conversion, the baseline pair grid, the correlation *)
(* tables, the per-cell override loop and the return.                      *)
(*                                                                         *)
(* Cell values are kept in printed form (strings), so that a category name *)
(* ("setosa") and its numeric code ("0") are different values.  Missing    *)
(* values are not modelled.  Correlation values themselves are not         *)
(* computed: an annotation is the sequence of the labels of its lines.     *)
(***************************************************************************)
EXTENDS Integers, Sequences, FiniteSets, TLC

\* ---- bounds ----
MaxVars == 2      \* longest variable list passed to plot_pairs
NRows == 2        \* rows of the table

\* ---- the universe of inputs ----
Columns == {"u", "v", "w"}            \* the columns of the table
Absent == "zz"                        \* a name that is not a column
None == "None"                        \* Python's None for color_by
DTypes == {"object", "category", "float64", "int32"}   \* storage types of the columns
TextLevels == <<"setosa", "versicolor">>   \* values of text/enumerated columns
NumLevels == <<"5", "7">>                  \* values of numeric columns
FontSizes == {10, 15}
DiagKinds == {"auto", "hist"}            \* the passthrough option diag_kind

\* the order pandas sorts values in (numbers numerically, text alphabetically)
ValueOrder == <<"0", "1", "2", "3", "5", "7", "setosa", "versicolor">>

Range(s) == {s[k] : k \in DOMAIN s}

Rank(x) == CHOOSE k \in DOMAIN ValueOrder : ValueOrder[k] = x

\* sorted distinct values of a column: the categories of astype("category")
\* and the group keys of groupby
SortedUnique(values) == SelectSeq(ValueOrder, LAMBDA x : x \in Range(values))

\* ---- pure parts of plot_pairs ----

\* a variant that forgets to add the grouping column to the selection
AllVars_WithoutColorBy(vars, color_by) == vars

\* lines 39-42
AllVars(vars, color_by) ==
    IF (color_by \in Range(vars)) \/ (color_by = None)
    THEN vars
    ELSE Append(vars, color_by)

\* a variant whose selection drops unknown names silently
RaisesKeyError_Never(d, names) == FALSE

\* data[all_vars] raises KeyError when a name is not a column (line 44)
RaisesKeyError(d, names) == \E k \in DOMAIN names : names[k] \notin DOMAIN d

\* data[all_vars].copy(), line 44: the named columns, in a new table
CopyColumns(d, names) == [c \in Range(names) \cap DOMAIN d |-> d[c]]

\* data[all_vars].select_dtypes(include=['object', 'category']).columns, line 47
CatVars(d, names) ==
    {c \in Range(names) \cap DOMAIN d : d[c].dtype \in {"object", "category"}}

\* data[all_vars].select_dtypes(exclude=['object', 'category']).columns, line 48
NumVars(d, names) ==
    {c \in Range(names) \cap DOMAIN d : d[c].dtype \notin {"object", "category"}}

\* lines 50-56
ColorMode(d, color_by) ==
    IF color_by = None THEN "none"
    ELSE IF d[color_by].dtype \in {"float64", "int64"} THEN "continuous"
    ELSE "categorical"

\* .astype("category").cat.codes, line 59: the position of each value among
\* the sorted distinct values, counted from 0, stored as int8
CatCodes(col) ==
    [dtype  |-> "int8",
     values |-> [r \in DOMAIN col.values |->
                   ToString(Cardinality({x \in Range(col.values) :
                                           Rank(x) < Rank(col.values[r])}))]]

\* lines 57-59: the loop runs only when color_by is given
ConvertCategoricals(df, cat_vars, color_by) ==
    IF color_by = None THEN df
    ELSE [c \in DOMAIN df |-> IF c \in cat_vars THEN CatCodes(df[c]) ELSE df[c]]

\* a variant that writes the codes into the caller's table
CallerTable_ConvertedInPlace(d, cat_vars, color_by) ==
    IF color_by = None THEN d
    ELSE [c \in DOMAIN d |-> IF c \in cat_vars THEN CatCodes(d[c]) ELSE d[c]]

\* the caller's table after lines 44-59: the conversion writes to the copy
CallerTable(d, cat_vars, color_by) == d

\* ---- axes ----

\* a drawing surface that does not exist
NoAxes ==
    [kind |-> "none", hue |-> FALSE, orient |-> "-", xvar |-> "", yvar |-> "",
     text |-> <<>>, fontsize |-> 0, ticks |-> FALSE, visible |-> FALSE,
     top |-> FALSE, right |-> FALSE,
     yticklabels |-> FALSE, ylabel |-> "", xticklabels |-> FALSE, xlabel |-> ""]

\* g.figure.add_axes(ax.get_position(), frame_on=True): an empty axes with
\* matplotlib's defaults (all four borders, ticks and tick labels shown)
NewAxes ==
    [NoAxes EXCEPT !.kind = "blank", !.ticks = TRUE, !.visible = TRUE,
                   !.top = TRUE, !.right = TRUE,
                   !.yticklabels = TRUE, !.xticklabels = TRUE]

\* sns.pairplot(plt_df, hue=color_by, vars=vars, corner=False, **kwargs),
\* lines 62-64: cell (i, j) of the baseline grid, i and j counted from 0.
\* The grid shares axes by row and column, labels the outer cells only and
\* is despined; diag_kind "auto" is "kde" with a hue and "hist" without.
BaselineAxes(i, j, vars, color_by, diag_kind) ==
    [NewAxes EXCEPT
       !.kind = IF i = j
                THEN (IF diag_kind = "auto"
                      THEN (IF color_by = None THEN "hist" ELSE "kde")
                      ELSE diag_kind)
                ELSE "scatter",
       !.hue = (color_by # None),
       !.xvar = vars[j + 1],
       !.yvar = IF i = j THEN "" ELSE vars[i + 1],
       !.top = FALSE, !.right = FALSE,
       !.yticklabels = (j = 0),
       !.ylabel = IF j = 0 THEN vars[i + 1] ELSE "",
       !.xticklabels = (i = Len(vars) - 1),
       !.xlabel = IF i = Len(vars) - 1 THEN vars[j + 1] ELSE ""]

\* a variant that also turns the diagonal into a histogram when the grouping
\* column is categorical
CellRule_DiagonalHistogramByGroup(i, j, row_var, col_var, cat_vars, num_vars, color_by) ==
    IF (i < j) /\ (row_var \in num_vars) /\ (col_var \in num_vars) THEN 1
    ELSE IF (i = j) /\ ((row_var \in cat_vars) \/ (color_by \in cat_vars)) THEN 2
    ELSE IF (i = j) /\ (color_by \in num_vars) THEN 3
    ELSE IF (row_var \in cat_vars) /\ (col_var \in cat_vars) THEN 4
    ELSE IF row_var \in cat_vars THEN 5
    ELSE IF col_var \in cat_vars THEN 6
    ELSE 0

\* a variant whose third rule forgets the test for the diagonal
CellRule_Rule3OffDiagonal(i, j, row_var, col_var, cat_vars, num_vars, color_by) ==
    IF (i < j) /\ (row_var \in num_vars) /\ (col_var \in num_vars) THEN 1
    ELSE IF (i = j) /\ (row_var \in cat_vars) THEN 2
    ELSE IF color_by \in num_vars THEN 3
    ELSE IF (row_var \in cat_vars) /\ (col_var \in cat_vars) THEN 4
    ELSE IF row_var \in cat_vars THEN 5
    ELSE IF col_var \in cat_vars THEN 6
    ELSE 0

\* the rule of lines 76-126 that cell (i, j) falls under; 0 when none does
CellRule(i, j, row_var, col_var, cat_vars, num_vars, color_by) ==
    IF (i < j) /\ (row_var \in num_vars) /\ (col_var \in num_vars) THEN 1
    ELSE IF (i = j) /\ (row_var \in cat_vars) THEN 2
    ELSE IF (i = j) /\ (color_by \in num_vars) THEN 3
    ELSE IF (row_var \in cat_vars) /\ (col_var \in cat_vars) THEN 4
    ELSE IF row_var \in cat_vars THEN 5
    ELSE IF col_var \in cat_vars THEN 6
    ELSE 0

\* plt_df.groupby(color_by): the group keys, line 69
GroupKeys(df, color_by) == SortedUnique(df[color_by].values)

\* a variant that never appends the per-group lines
CorrText_OverallOnly(color_mode, group_keys) == <<"Corr">>

\* lines 79-85: the labels of the annotation's lines
CorrText(color_mode, group_keys) ==
    IF color_mode = "categorical" THEN <<"Corr">> \o group_keys ELSE <<"Corr">>

\* the axes that replaces the cell under rule r, lines 77-126
ReplacementAxes(r, row_var, col_var, color_mode, group_keys, corr_fontsize) ==
    CASE r = 1 -> [NewAxes EXCEPT !.kind = "corr", !.xvar = col_var, !.yvar = row_var,
                                  !.text = CorrText(color_mode, group_keys),
                                  !.fontsize = corr_fontsize, !.ticks = FALSE]
      [] r = 2 -> [NewAxes EXCEPT !.kind = "hist", !.xvar = row_var,
                                  !.hue = (color_mode = "categorical"),
                                  !.xlabel = row_var, !.ylabel = "Count"]
      [] r = 3 -> [NewAxes EXCEPT !.kind = "kde", !.xvar = row_var,
                                  !.xlabel = row_var, !.ylabel = "Density"]
      [] r = 4 -> [NewAxes EXCEPT !.kind = "heatmap", !.xvar = col_var, !.yvar = row_var,
                                  !.text = <<"counts">>,
                                  !.xlabel = col_var, !.ylabel = row_var]
      [] r = 5 -> [NewAxes EXCEPT !.kind = "boxplot", !.orient = "h",
                                  !.xvar = col_var, !.yvar = row_var,
                                  !.hue = (color_mode = "categorical"),
                                  !.xlabel = col_var, !.ylabel = row_var]
      [] r = 6 -> [NewAxes EXCEPT !.kind = "boxplot", !.orient = "v",
                                  !.xvar = col_var, !.yvar = row_var,
                                  !.hue = (color_mode = "categorical"),
                                  !.xlabel = col_var, !.ylabel = row_var]

\* a variant that tests the row index where the column index is meant
Cosmetics_RowForColumn(ax, i, j, n) ==
    [ax EXCEPT !.top = FALSE, !.right = FALSE,
               !.yticklabels = IF i # 0 THEN FALSE ELSE @,
               !.ylabel = IF i # 0 THEN "" ELSE @,
               !.xticklabels = IF i # (n - 1) THEN FALSE ELSE @,
               !.xlabel = IF i # (n - 1) THEN "" ELSE @]

\* lines 127-134, applied to the axes the loop body ends with
Cosmetics(ax, i, j, n) ==
    [ax EXCEPT !.top = FALSE, !.right = FALSE,
               !.yticklabels = IF j # 0 THEN FALSE ELSE @,
               !.ylabel = IF j # 0 THEN "" ELSE @,
               !.xticklabels = IF i # (n - 1) THEN FALSE ELSE @,
               !.xlabel = IF i # (n - 1) THEN "" ELSE @]

\* a variant that forgets ax.set_visible(False) on the baseline axes
UpdatedCell_BaselineLeftVisible(cell, r, i, j, n, row_var, col_var, color_mode, group_keys, corr_fontsize) ==
    IF r = 0
    THEN [cell EXCEPT !.base = Cosmetics(cell.base, i, j, n)]
    ELSE [base |-> cell.base,
          over |-> Cosmetics(ReplacementAxes(r, row_var, col_var, color_mode,
                                             group_keys, corr_fontsize), i, j, n)]

\* one pass of the loop body, lines 74-134, on the cell [base, over]
UpdatedCell(cell, r, i, j, n, row_var, col_var, color_mode, group_keys, corr_fontsize) ==
    IF r = 0
    THEN [cell EXCEPT !.base = Cosmetics(cell.base, i, j, n)]
    ELSE [base |-> [cell.base EXCEPT !.visible = FALSE],
          over |-> Cosmetics(ReplacementAxes(r, row_var, col_var, color_mode,
                                             group_keys, corr_fontsize), i, j, n)]

\* ---- the tables a caller can hold ----

IsText(dtype) == dtype \in {"object", "category"}

Column(dtype, pat) ==
    [dtype  |-> dtype,
     values |-> [r \in 1..NRows |->
                   IF IsText(dtype) THEN TextLevels[pat[r]] ELSE NumLevels[pat[r]]]]

\* which level each row holds; row 1 holds the later level, so that the order
\* of the rows and the sorted order of the values differ
Patterns == {pat \in [1..NRows -> 1..2] : pat[1] = 2}

Tables ==
    {[c \in Columns |-> Column(schema[c], pat)] :
        schema \in [Columns -> DTypes], pat \in Patterns}

\* variable lists: distinct names, some of which may not be columns
VarLists ==
    {s \in UNION {[1..n -> Columns \cup {Absent}] : n \in 1..MaxVars} :
        \A a, b \in DOMAIN s : a # b => s[a] # s[b]}

NoArgs == [vars |-> <<>>, color_by |-> None, corr_fontsize |-> 0, diag_kind |-> "auto"]

\* ---- state ----
VARIABLES
    data,        \* the caller's table: column name -> [dtype, values]
    pc,          \* where the call stands
    args,        \* the arguments of the call in progress
    all_vars,    \* line 39-42
    plt_df,      \* line 44: the private copy
    cat_vars,    \* line 47
    num_vars,    \* line 48
    color_mode,  \* lines 50-56
    g,           \* the PairGrid: cell <<i, j>> -> [base, over]; empty = no figure
    group_keys,  \* the groups of grouped_corr_matrix, line 69
    pos,         \* the loop of lines 72-73: cells already processed
    result       \* what the call gave its caller

vars == <<data, pc, args, all_vars, plt_df, cat_vars, num_vars, color_mode,
          g, group_keys, pos, result>>

locals == <<all_vars, plt_df, cat_vars, num_vars, color_mode, g, group_keys, pos>>

NoFrame ==
    /\ all_vars' = <<>>
    /\ plt_df' = <<>>
    /\ cat_vars' = {}
    /\ num_vars' = {}
    /\ color_mode' = "unset"
    /\ g' = <<>>
    /\ group_keys' = <<>>
    /\ pos' = 0

Init ==
    /\ data \in Tables
    /\ pc = "idle"
    /\ args = NoArgs
    /\ all_vars = <<>>
    /\ plt_df = <<>>
    /\ cat_vars = {}
    /\ num_vars = {}
    /\ color_mode = "unset"
    /\ g = <<>>
    /\ group_keys = <<>>
    /\ pos = 0
    /\ result = "none"

\* plot_pairs(data, vars, color_by, corr_fontsize, **kwargs) is entered
\* (line 5) and selects its columns, lines 39-48
Select(vs, cb, fs, dk) ==
    /\ pc = "idle"
    /\ args' = [vars |-> vs, color_by |-> cb, corr_fontsize |-> fs, diag_kind |-> dk]
    /\ all_vars' = AllVars(vs, cb)
    /\ IF RaisesKeyError(data, all_vars')
       THEN /\ pc' = "raised"
            /\ result' = "KeyError"
            /\ UNCHANGED <<plt_df, cat_vars, num_vars>>
       ELSE /\ pc' = "mode"
            /\ plt_df' = CopyColumns(data, all_vars')
            /\ cat_vars' = CatVars(data, all_vars')
            /\ num_vars' = NumVars(data, all_vars')
            /\ result' = "none"
    /\ UNCHANGED <<data, color_mode, g, group_keys, pos>>

\* lines 50-59; data[color_by] at line 53 is a column lookup
ResolveMode ==
    /\ pc = "mode"
    /\ IF (args.color_by # None) /\ (args.color_by \notin DOMAIN data)
       THEN /\ pc' = "raised"
            /\ result' = "KeyError"
            /\ UNCHANGED <<data, plt_df, color_mode>>
       ELSE /\ color_mode' = ColorMode(data, args.color_by)
            /\ plt_df' = ConvertCategoricals(plt_df, cat_vars, args.color_by)
            /\ data' = CallerTable(data, cat_vars, args.color_by)
            /\ pc' = "pairplot"
            /\ UNCHANGED result
    /\ UNCHANGED <<args, all_vars, cat_vars, num_vars, g, group_keys, pos>>

\* lines 62-64: seaborn lays the figure and its axes out first and looks the
\* columns up in plt_df when it draws on them
Pairplot ==
    /\ pc = "pairplot"
    /\ g' = [c \in (0..(Len(args.vars) - 1)) \X (0..(Len(args.vars) - 1)) |->
               [base |-> BaselineAxes(c[1], c[2], args.vars, args.color_by, args.diag_kind),
                over |-> NoAxes]]
    /\ IF \E c \in Range(args.vars) \cup ({args.color_by} \ {None}) : c \notin DOMAIN plt_df
       THEN /\ pc' = "raised"
            /\ result' = "KeyError"
       ELSE /\ pc' = "corr"
            /\ UNCHANGED result
    /\ UNCHANGED <<data, args, all_vars, plt_df, cat_vars, num_vars, color_mode,
                   group_keys, pos>>

\* lines 67-69
Correlations ==
    /\ pc = "corr"
    /\ group_keys' = IF color_mode = "categorical"
                     THEN GroupKeys(plt_df, args.color_by)
                     ELSE <<>>
    /\ pos' = 0
    /\ pc' = "cells"
    /\ UNCHANGED <<data, args, all_vars, plt_df, cat_vars, num_vars, color_mode, g, result>>

\* one iteration of the loops of lines 72-134
UpdateCell ==
    /\ pc = "cells"
    /\ pos < Len(args.vars) * Len(args.vars)
    /\ LET n == Len(args.vars)
           i == pos \div n
           j == pos % n
           row_var == args.vars[i + 1]
           col_var == args.vars[j + 1]
           r == CellRule(i, j, row_var, col_var, cat_vars, num_vars, args.color_by)
       IN  g' = [g EXCEPT ![<<i, j>>] =
                    UpdatedCell(@, r, i, j, n, row_var, col_var, color_mode,
                                group_keys, args.corr_fontsize)]
    /\ pos' = pos + 1
    /\ UNCHANGED <<data, pc, args, all_vars, plt_df, cat_vars, num_vars, color_mode,
                   group_keys, result>>

\* line 136
Return ==
    /\ pc = "cells"
    /\ pos = Len(args.vars) * Len(args.vars)
    /\ result' = "grid"
    /\ pc' = "done"
    /\ UNCHANGED <<data, args, locals>>

\* the caller has the outcome; the frame of the call is gone
Finish ==
    /\ pc \in {"done", "raised"}
    /\ pc' = "idle"
    /\ args' = NoArgs
    /\ result' = "none"
    /\ NoFrame
    /\ UNCHANGED data

Next ==
    \/ \E vs \in VarLists, cb \in Columns \cup {Absent, None},
          fs \in FontSizes, dk \in DiagKinds : Select(vs, cb, fs, dk)
    \/ ResolveMode
    \/ Pairplot
    \/ Correlations
    \/ UpdateCell
    \/ Return
    \/ Finish

Spec == Init /\ [][Next]_vars

\* ---- vocabulary of the properties ----

N == Len(args.vars)
Cells == (0..(N - 1)) \X (0..(N - 1))
Returned == pc = "done"

\* classification of a column by the storage type the table declares
Categorical(v) == IsText(data[v].dtype)
Continuous(v) == ~IsText(data[v].dtype)

\* the axes finally visible at a cell: the replacement when there is one
Final(c) == IF g[c].over.kind # "none" THEN g[c].over ELSE g[c].base
Overridden(c) == g[c].over.kind # "none"

\* the groups of the grouping column, as the input table names them
GroupsOf(v) == SortedUnique(data[v].values)

InvalidCall ==
    \/ (args.color_by # None) /\ (args.color_by \notin DOMAIN data)
    \/ \E k \in DOMAIN args.vars : args.vars[k] \notin DOMAIN data

\* ---- C1 ----
\* C1: a call whose grouping column is given and is not a column, or whose
\* variable list names a non-column, ends in its column selection by raising
\* KeyError and returns no grid, whatever corr_fontsize and the passthrough
\* options are.
C1_InvalidCallRaisesKeyError ==
    (pc # "idle" /\ InvalidCall) =>
        /\ pc = "raised"
        /\ result = "KeyError"

C1_Witness ==
    /\ pc = "raised"
    /\ result = "KeyError"
    /\ args.color_by = Absent
    /\ \A k \in DOMAIN args.vars : args.vars[k] \in DOMAIN data
    /\ args.corr_fontsize = 15
    /\ args.diag_kind = "hist"

\* ---- C8 ----
\* C8: when the call raises KeyError no figure and no axes exist; a figure
\* exists only in a call whose names are all columns, which goes on to return.
C8_NoPartialResult ==
    /\ (pc = "raised" => g = <<>>)
    /\ (g # <<>> => ~InvalidCall /\ pc \in {"corr", "cells", "done"})

C8_Witness ==
    /\ pc = "raised"
    /\ g = <<>>
    /\ args.color_by \in DOMAIN data
    /\ \E k \in DOMAIN args.vars : args.vars[k] = Absent

\* ---- C9 ----
\* C9: no step of plot_pairs changes the caller's table.
C9_InputTableUnchanged == [][data' = data]_vars

\* the private copy holds codes where the caller's table still holds names
C9_Witness ==
    /\ pc = "pairplot"
    /\ \E c \in cat_vars :
          /\ plt_df[c].dtype = "int8"
          /\ data[c].dtype \in {"object", "category"}
          /\ plt_df[c].values # data[c].values

\* ---- C2 ----
\* the scenario of C2: only continuous variables, and a grouping column of
\* text/enumerated storage type
C2_Scenario ==
    /\ Returned
    /\ \A k \in DOMAIN args.vars : Continuous(args.vars[k])
    /\ args.color_by # None
    /\ Categorical(args.color_by)

\* C2 as stated: in the scenario every diagonal cell has been overridden with
\* a histogram grouped by the categories.
C2_DiagonalOverriddenWithGroupedHistogram ==
    C2_Scenario =>
        \A i \in 0..(N - 1) :
            /\ Overridden(<<i, i>>)
            /\ Final(<<i, i>>).kind = "hist"
            /\ Final(<<i, i>>).hue

\* C2 as amended: in the scenario no diagonal cell is overridden; each keeps
\* the baseline grid's diagonal rendering, colored by the grouping column:
\* a density curve unless the passthrough option diag_kind names another kind.
C2_DiagonalKeepsBaseline ==
    C2_Scenario =>
        \A i \in 0..(N - 1) :
            /\ ~Overridden(<<i, i>>)
            /\ g[<<i, i>>].base.visible
            /\ g[<<i, i>>].base.hue
            /\ g[<<i, i>>].base.kind =
                  (IF args.diag_kind = "auto" THEN "kde" ELSE args.diag_kind)

C2_Witness ==
    /\ C2_Scenario
    /\ N = 2
    /\ Cardinality(Range(data[args.color_by].values)) = 2
    /\ args.diag_kind = "auto"
    /\ g[<<1, 1>>].base.kind = "kde"

\* ---- C3 ----
\* C3: in mode "categorical" the per-group lines of every correlation cell
\* (i < j, both variables continuous) carry the group names of the input
\* table's grouping column, one line per group.
C3_GroupLinesCarryGroupNames ==
    (Returned /\ color_mode = "categorical") =>
        \A c \in Cells :
            (c[1] < c[2] /\ Continuous(args.vars[c[1] + 1]) /\ Continuous(args.vars[c[2] + 1]))
                => Tail(Final(c).text) = GroupsOf(args.color_by)

\* ---- C4 ----
\* C4: a cell with i < j and two continuous variables is annotated with the
\* overall correlation and, in mode "categorical", with one more line for each
\* distinct group of the grouping column; with the overall value alone in
\* modes "none" and "continuous".
C4_CorrelationLineCount ==
    Returned =>
        \A c \in Cells :
            (c[1] < c[2] /\ Continuous(args.vars[c[1] + 1]) /\ Continuous(args.vars[c[2] + 1]))
                => /\ Final(c).kind = "corr"
                   /\ Final(c).text[1] = "Corr"
                   /\ Len(Final(c).text) =
                         IF color_mode = "categorical"
                         THEN 1 + Cardinality(Range(data[args.color_by].values))
                         ELSE 1

C4_Witness ==
    /\ Returned
    /\ N = 2
    /\ Continuous(args.vars[1]) /\ Continuous(args.vars[2])
    /\ color_mode = "categorical"
    /\ Cardinality(Range(data[args.color_by].values)) = 2
    /\ Len(g[<<0, 1>>].over.text) = 3

\* ---- C5 ----
\* C5: an off-diagonal cell with a categorical variable is a count heatmap
\* (both categorical), a horizontal boxplot with the categorical variable on
\* the vertical axis (row categorical), or a vertical boxplot with it on the
\* horizontal axis (column categorical); boxplots are grouped exactly in mode
\* "categorical".
C5_CategoricalOffDiagonalCells ==
    Returned =>
        \A c \in Cells :
            LET row_var == args.vars[c[1] + 1]
                col_var == args.vars[c[2] + 1]
                ax == Final(c)
            IN  (c[1] # c[2]) =>
                  /\ (Categorical(row_var) /\ Categorical(col_var)) =>
                        /\ Overridden(c)
                        /\ ax.kind = "heatmap"
                        /\ ax.text = <<"counts">>
                  /\ (Categorical(row_var) /\ Continuous(col_var)) =>
                        /\ Overridden(c)
                        /\ ax.kind = "boxplot" /\ ax.orient = "h"
                        /\ ax.yvar = row_var /\ ax.xvar = col_var
                        /\ (ax.hue <=> color_mode = "categorical")
                  /\ (Continuous(row_var) /\ Categorical(col_var)) =>
                        /\ Overridden(c)
                        /\ ax.kind = "boxplot" /\ ax.orient = "v"
                        /\ ax.xvar = col_var /\ ax.yvar = row_var
                        /\ (ax.hue <=> color_mode = "categorical")

C5_Witness ==
    /\ Returned
    /\ N = 2
    /\ Categorical(args.vars[1]) /\ Continuous(args.vars[2])
    /\ color_mode = "continuous"
    /\ g[<<0, 1>>].over.kind = "boxplot" /\ g[<<0, 1>>].over.orient = "h"
    /\ g[<<1, 0>>].over.kind = "boxplot" /\ g[<<1, 0>>].over.orient = "v"

\* ---- C6 ----
\* C6: on the axes finally visible at each cell the top and right borders are
\* hidden, the y tick labels and title are cleared unless j = 0, and the x
\* tick labels and title are cleared unless i = len(vars) - 1.
C6_CosmeticPass ==
    Returned =>
        \A c \in Cells :
            LET ax == Final(c)
            IN  /\ ~ax.top /\ ~ax.right
                /\ (c[2] # 0 => (~ax.yticklabels /\ ax.ylabel = ""))
                /\ (c[1] # N - 1 => (~ax.xticklabels /\ ax.xlabel = ""))

C6_Witness ==
    /\ Returned
    /\ N = 2
    /\ \A c \in Cells : Overridden(c)
    /\ g[<<1, 0>>].over.ylabel # "" /\ g[<<1, 0>>].over.xlabel # ""

C10_ModeAgreesWithClassification ==
    /\ (pc \in {"pairplot", "corr", "cells", "done"} /\ args.color_by # None) =>
          /\ (color_mode = "continuous" <=> args.color_by \in num_vars)
          /\ (color_mode = "categorical" <=> args.color_by \in cat_vars)
    /\ Returned =>
          \A i \in 0..(N - 1) :
              Continuous(args.vars[i + 1]) =>
                  ((Overridden(<<i, i>>) /\ Final(<<i, i>>).kind = "kde" /\ ~Final(<<i, i>>).hue)
                      <=> color_mode = "continuous")

====
